---- MODULE Spec2Model ----
(***************************************************************************)
(* GreenViva: the tip synchronisation layer (SyncService over the local    *)
(* IndexedDB tip store and the Gmail draft used as remote mirror) and the  *)
(* batch fetch pipeline of the transfer endpoints.                         *)
(*                                                                         *)
(* The specifications of this module:                                      *)
(*   SpecMerge     - mergeTips as a pure function over bounded inputs      *)
(*   SpecMirror    - the /api/tips/sync POST and GET handlers on a mailbox *)
(*   SpecSync      - one SyncService instance, its store and the mirror    *)
(*   SpecFetch     - the daily and monthly transfer endpoints              *)
(*   SpecCache     - the period cache and its clock                        *)
(*   SpecMonthView - the monthly totals, from the endpoint to the page     *)
(*   SpecStream    - the streaming monthly endpoint                        *)
(*   SpecPage      - the history page and its period requests              *)
(***************************************************************************)
EXTENDS Integers, Sequences, FiniteSets, TLC

VARIABLES
  \* ---- SpecMerge
  mLocal,          \* mergeTips: argument local
  mRemote,         \* mergeTips: argument remote
  mMerged,         \* mergeTips: returned array
  mPc,             \* "input" | "merged"
  \* ---- the mailbox and the /api/tips/sync handlers (SpecMirror, SpecSync)
  drafts,          \* the drafts whose subject is DRAFT_SUBJECT
  reqs,            \* the handler invocations, one record per request slot
  faults,          \* how many db calls, network calls and provider calls have failed
  \* ---- one SyncService instance and its TipsDatabase (SpecSync)
  store,           \* the object store "tips": identifier -> Tip
  nextId,          \* the identifier the next crypto.randomUUID() stands for
  syncInProgress,  \* SyncService.syncInProgress
  calls,           \* the sync() calls that passed the guard and have not settled
  callers,         \* addTip / deleteTip calls between their db write and this.sync()
  init,            \* the initialize() call
  deletes,         \* deleteTip calls made
  inits,           \* initialize() calls made
  \* ---- history of SpecSync
  pushedOK,        \* identifiers contained in a tip set whose push succeeded
  adopted,         \* identifiers written by initialize() from the remote collection
  stale,           \* the store was mutated and no push of its content was issued since
  outcomes,        \* how many sync() calls resolved, rejected, returned at the guard
  \* ---- the transfer endpoints (SpecFetch)
  fetch,           \* the GET request being served
  tasks,           \* the processEmail calls of the current batch, by message
  odd,             \* the messages the provider has not answered with a plain transfer
  cache,           \* the entries of the period cache
  clock,           \* Date.now() and the number of times it has advanced
  got,             \* the last cache.get call, while nothing has followed it
  written,         \* per key, the last set since the key was last removed
  served,          \* requests served
  \* ---- the pages and the streaming endpoint
  view,            \* the monthly totals on their way from the transfers to the page
  stream,          \* one run of the streaming monthly endpoint
  page             \* the history page: its state and its requests in flight

(***************************************************************************)
(* Bounds of the model.                                                    *)
(***************************************************************************)
MaxMergeLen == 2
MaxId == 2
MaxDrafts == 2
MaxSaveLen == 2
MaxReqs == 2
MaxDeletes == 1
MaxInits == 1
MaxFaults == 1
MaxMsgs == 23
MaxOdd == 1
MaxServed == 2
MaxTicks == 4
MaxTransfers == 3
MaxStream == 4
MaxRequests == 5

(***************************************************************************)
(* Tips (src/lib/db.ts, interface Tip).                                    *)
(***************************************************************************)
TipIds == 1..MaxId
Amounts == {5, 7}
Dates == {21}
Notes == {"", "cash"}

Tip(id, amount, date, note, synced) ==
  [id |-> id, amount |-> amount, date |-> date, note |-> note, synced |-> synced]

Tips ==
  { Tip(i, a, d, n, s) : i \in TipIds, a \in Amounts, d \in Dates,
                          n \in Notes, s \in BOOLEAN }

NoTip == Tip(0, 0, 0, "", FALSE)

Ids(tips) == { tips[i].id : i \in 1..Len(tips) }

DistinctIds(tips) ==
  \A i, j \in 1..Len(tips) : tips[i].id = tips[j].id => i = j

SeqsUpTo(S, n) == UNION { [1..k -> S] : k \in 0..n }

(***************************************************************************)
(* mergeTips (src/lib/sync.ts:35-45).  tipMap is a JavaScript Map: set on  *)
(* a new key appends the key, set on a present key replaces the value in   *)
(* place; Array.from(tipMap.values()) lists the values in key order.       *)
(***************************************************************************)
MapSet(m, tip) ==
  IF \E i \in 1..Len(m) : m[i].id = tip.id
  THEN [i \in 1..Len(m) |-> IF m[i].id = tip.id THEN tip ELSE m[i]]
  ELSE Append(m, tip)

RECURSIVE MapSetAll(_, _)
MapSetAll(m, tips) ==
  IF tips = <<>> THEN m ELSE MapSetAll(MapSet(m, Head(tips)), Tail(tips))

MarkSynced(tips) == [i \in 1..Len(tips) |-> [tips[i] EXCEPT !.synced = TRUE]]

mergeTipsAppend(local, remote) == local \o MarkSynced(remote)

mergeTipsLocalWins(local, remote) ==
  MapSetAll(MapSetAll(<<>>, MarkSynced(remote)), local)

mergeTips(local, remote) ==
  MapSetAll(MapSetAll(<<>>, local), MarkSynced(remote))

(***************************************************************************)
(* The draft body.  A text is a sequence of tokens; only the tokens the    *)
(* extraction regex and the JSON grammar distinguish are kept apart.       *)
(***************************************************************************)
Tok(k) == [k |-> k, v |-> NoTip]
LBrace == Tok("{")
RBrace == Tok("}")
LBracket == Tok("[")
RBracket == Tok("]")
Comma == Tok(",")
HeaderLine == Tok("header")
BlankLine == Tok("blank")
Fields(tip) == [k |-> "fields", v |-> tip]

\* JSON.stringify(tips, null, 2): "[" object "," object ... "]"
RECURSIVE JSONElements(_)
JSONElements(tips) ==
  IF tips = <<>> THEN <<>>
  ELSE <<LBrace, Fields(Head(tips)), RBrace>>
         \o (IF Len(tips) > 1 THEN <<Comma>> ELSE <<>>)
         \o JSONElements(Tail(tips))

JSONStringify(tips) == <<LBracket>> \o JSONElements(tips) \o <<RBracket>>

\* Buffer.from(email).toString('base64') with + -> -, / -> _, padding stripped
encodeMessage(text) == [alphabet |-> "urlsafe", padded |-> FALSE, text |-> text]

\* Buffer.from(raw, 'base64'): Node's decoder reads both base64 alphabets and
\* does not need the padding
BufferFromBase64(raw) == raw.text

\* createDraftContent (src/app/api/tips/sync/route.ts:30-40)
createDraftContent(tips) ==
  encodeMessage(<<HeaderLine, HeaderLine, HeaderLine, BlankLine>> \o JSONStringify(tips))

\* content.match(/\{[\s\S]*\}/): greedy, from the first "{" to the last "}"
matchBraces(text) ==
  LET opens == { i \in 1..Len(text) : text[i] = LBrace }
      closes == { i \in 1..Len(text) : text[i] = RBrace }
      first == CHOOSE i \in opens : \A j \in opens : i <= j
      last == CHOOSE i \in closes : \A j \in closes : j <= i
  IN IF opens = {} \/ closes = {} THEN [found |-> FALSE, span |-> <<>>]
     ELSE IF last < first THEN [found |-> FALSE, span |-> <<>>]
     ELSE [found |-> TRUE, span |-> SubSeq(text, first, last)]

\* JSON values: an array of objects, one object, or a SyntaxError
JSONArray(items) == [kind |-> "array", items |-> items]
JSONObject(tip) == [kind |-> "object", items |-> <<tip>>]
SyntaxError == [kind |-> "error", items |-> <<>>]

IsObjectAt(toks, i) ==
  /\ i + 2 <= Len(toks)
  /\ toks[i] = LBrace
  /\ toks[i + 1].k = "fields"
  /\ toks[i + 2] = RBrace

\* the elements between "[" and "]": object ("," object)*
IsElementList(toks) ==
  \/ toks = <<>>
  \/ /\ (Len(toks) + 1) % 4 = 0
     /\ \A g \in 1..((Len(toks) + 1) \div 4) :
          /\ IsObjectAt(toks, 4 * g - 3)
          /\ (4 * g <= Len(toks) => toks[4 * g] = Comma)

JSONParse(toks) ==
  IF Len(toks) = 3 /\ IsObjectAt(toks, 1) THEN JSONObject(toks[2].v)
  ELSE IF /\ Len(toks) >= 2
          /\ toks[1] = LBracket
          /\ toks[Len(toks)] = RBracket
          /\ IsElementList(SubSeq(toks, 2, Len(toks) - 1))
       THEN LET inner == SubSeq(toks, 2, Len(toks) - 1)
            IN JSONArray([g \in 1..((Len(inner) + 1) \div 4) |-> inner[4 * g - 2].v])
       ELSE SyntaxError

(***************************************************************************)
(* The mailbox and the handlers of /api/tips/sync                          *)
(* (src/app/api/tips/sync/route.ts).  A draft keeps the raw message it was *)
(* written with; saved is a history field, the collection given to         *)
(* createDraftContent.  The draft identifier is its index in drafts.       *)
(***************************************************************************)
mergeVars == <<mLocal, mRemote, mMerged, mPc>>
mirrorVars == <<drafts, reqs, faults>>
dbVars == <<store, nextId>>
callVars == <<syncInProgress, calls, outcomes>>
countVars == <<deletes, inits>>
histVars == <<pushedOK, adopted, stale>>
syncVars ==
  <<store, nextId, syncInProgress, calls, callers, init, deletes, inits,
    pushedOK, adopted, stale, outcomes>>
cacheVars == <<cache, clock, got, written>>
fetchVars == <<fetch, tasks, odd, cache, clock, got, written, served>>
pageVars == <<view, stream, page>>
vars ==
  <<mLocal, mRemote, mMerged, mPc, drafts, reqs, faults,
    store, nextId, syncInProgress, calls, callers, init, deletes, inits,
    pushedOK, adopted, stale, outcomes, fetch, tasks, odd, cache, clock, got, written,
    served, view, stream, page>>

Slots == 1..MaxReqs
NoDraft == 0
NoSlot == 0
EmptyJSON == JSONArray(<<>>)
Response(status, body) == [status |-> status, body |-> body]
NoResponse == Response(0, EmptyJSON)

IdleReq ==
  [kind |-> "none", pc |-> "none", body |-> <<>>, draftId |-> NoDraft,
   resp |-> NoResponse, readSaved |-> <<>>, readDraft |-> FALSE,
   mirrorAfter |-> {}, session |-> "ok"]

Sessions == {"ok", "none"}

\* a failure of the environment, within the model's budget of failures
Fails(n) ==
  /\ faults + n <= MaxFaults
  /\ faults' = faults + n

\* the collections the mailbox may hand to drafts.list's caller
MirrorContents(ds) == { ds[i].saved : i \in 1..Len(ds) }

\* request.json() of a body sent as JSON.stringify(tips)
RequestJson(tips) == JSONParse(JSONStringify(tips)).items

\* the slots are alike: a request takes the first free one
FreeSlot(r) ==
  /\ reqs[r].kind = "none"
  /\ \A q \in Slots : q < r => reqs[q].kind # "none"

\* POST, lines 44-50: no session or no access token answers 401
PostBegin(r, tips, sess) ==
  /\ FreeSlot(r)
  /\ Fails(IF sess = "ok" THEN 0 ELSE 1)
  /\ reqs' = [reqs EXCEPT ![r] =
       IF sess = "ok"
       THEN [IdleReq EXCEPT !.kind = "POST", !.pc = "find", !.body = RequestJson(tips)]
       ELSE [IdleReq EXCEPT !.kind = "POST", !.pc = "done", !.session = sess,
                            !.resp = Response(401, EmptyJSON)]]
  /\ UNCHANGED drafts

\* GET, lines 94-98
GetBegin(r, sess) ==
  /\ FreeSlot(r)
  /\ Fails(IF sess = "ok" THEN 0 ELSE 1)
  /\ reqs' = [reqs EXCEPT ![r] =
       IF sess = "ok"
       THEN [IdleReq EXCEPT !.kind = "GET", !.pc = "find"]
       ELSE [IdleReq EXCEPT !.kind = "GET", !.pc = "done", !.session = sess,
                            !.resp = Response(401, EmptyJSON)]]
  /\ UNCHANGED drafts

\* findSyncDraft (lines 15-28): drafts[0] of the list answer, whose order the
\* mail provider chooses; null when nothing is listed or the call throws
findSyncDraft(ds, listThrows) ==
  IF listThrows \/ ds = <<>> THEN {NoDraft} ELSE 1..Len(ds)

\* POST line 56 and GET lines 104-107
FindDraft(r) ==
  /\ reqs[r].pc = "find"
  /\ \E listThrows \in BOOLEAN :
       /\ Fails(IF listThrows THEN 1 ELSE 0)
       /\ \E d \in findSyncDraft(drafts, listThrows) :
            /\ (reqs[r].kind = "POST" /\ d = NoDraft) => Len(drafts) < MaxDrafts
            /\ reqs' = [reqs EXCEPT ![r] =
                 IF reqs[r].kind = "GET" /\ d = NoDraft
                 THEN [@ EXCEPT !.pc = "done", !.resp = Response(200, EmptyJSON)]
                 ELSE [@ EXCEPT !.pc = "write", !.draftId = d]]
  /\ UNCHANGED drafts

Draft(tips) == [raw |-> createDraftContent(tips), saved |-> tips]

\* POST line 59: drafts.create runs only when findSyncDraft returned null
CreatesDraft(draftId) == draftId = NoDraft

\* POST lines 57-82: drafts.update of the draft found, drafts.create otherwise
PostWrite(r) ==
  /\ reqs[r].kind = "POST" /\ reqs[r].pc = "write"
  /\ CreatesDraft(reqs[r].draftId) => Len(drafts) < MaxDrafts
  /\ drafts' = IF CreatesDraft(reqs[r].draftId)
               THEN Append(drafts, Draft(reqs[r].body))
               ELSE [drafts EXCEPT ![reqs[r].draftId] = Draft(reqs[r].body)]
  /\ reqs' = [reqs EXCEPT ![r] =
       [@ EXCEPT !.pc = "done", !.resp = Response(200, EmptyJSON),
                 !.mirrorAfter = MirrorContents(drafts')]]
  /\ UNCHANGED faults

\* POST lines 83-89: a drafts.update or drafts.create that throws answers 500
PostWriteThrows(r) ==
  /\ reqs[r].kind = "POST" /\ reqs[r].pc = "write"
  /\ Fails(1)
  /\ reqs' = [reqs EXCEPT ![r] =
       [@ EXCEPT !.pc = "done", !.resp = Response(500, EmptyJSON)]]
  /\ UNCHANGED drafts

\* GET lines 120-127 on the raw message of the draft
decodeTips(raw) ==
  LET content == BufferFromBase64(raw)
      match == matchBraces(content)
  IN IF ~match.found THEN Response(200, EmptyJSON)
     ELSE LET tips == JSONParse(match.span)
          IN IF tips.kind = "error" THEN Response(500, EmptyJSON)
             ELSE Response(200, tips)

\* GET lines 109-127
GetRead(r) ==
  /\ reqs[r].kind = "GET" /\ reqs[r].pc = "write"
  /\ reqs' = [reqs EXCEPT ![r] =
       [@ EXCEPT !.pc = "done", !.resp = decodeTips(drafts[reqs[r].draftId].raw),
                 !.readDraft = TRUE, !.readSaved = drafts[reqs[r].draftId].saved]]
  /\ UNCHANGED <<drafts, faults>>

\* GET lines 128-134: drafts.get throws
GetReadThrows(r) ==
  /\ reqs[r].kind = "GET" /\ reqs[r].pc = "write"
  /\ Fails(1)
  /\ reqs' = [reqs EXCEPT ![r] =
       [@ EXCEPT !.pc = "done", !.resp = Response(500, EmptyJSON)]]
  /\ UNCHANGED drafts

(***************************************************************************)
(* Initial values of the parts a specification does not use.               *)
(***************************************************************************)
NewCall == [pc |-> "getTips", localTips |-> <<>>, slot |-> NoSlot, idx |-> 0, tip |-> NoTip]
IdleInit ==
  [pc |-> "idle", slot |-> NoSlot, remote |-> EmptyJSON, queue |-> <<>>,
   settled |-> "none", failure |-> "none"]

MergeIdle ==
  /\ mLocal = <<>>
  /\ mRemote = <<>>
  /\ mMerged = <<>>
  /\ mPc = "off"

MirrorIdle ==
  /\ drafts = <<>>
  /\ reqs = [r \in Slots |-> IdleReq]
  /\ faults = 0

SyncIdle ==
  /\ store = <<>>
  /\ nextId = 1
  /\ syncInProgress = FALSE
  /\ calls = <<>>
  /\ callers = [addTip |-> 0, deleteTip |-> 0]
  /\ init = IdleInit
  /\ deletes = 0
  /\ inits = 0
  /\ pushedOK = {}
  /\ adopted = {}
  /\ stale = FALSE
  /\ outcomes = [resolved |-> 0, rejected |-> 0, skipped |-> 0]

Endpoints == {"daily", "monthly", "legacy"}
CACHE_TTL == 86400000
CacheKeys == {"monthly-2024", "transfers-2024-03-21"}
NoEntry == [key |-> "", data |-> {}, timestamp |-> 0, expiresAt |-> 0]
Absent == [hit |-> FALSE, data |-> {}]
NoGet == [key |-> "", at |-> 0, before |-> {}, result |-> Absent]
NoSet == [sets |-> 0, data |-> {}, at |-> 0]
IdleFetch ==
  [endpoint |-> "none", pc |-> "idle", n |-> 0, i |-> 0, k |-> 0, transfers |-> {},
   status |-> 0, body |-> {}, batches |-> 0, exhausted |-> FALSE, lateBatch |-> FALSE,
   authRejected |-> FALSE, cached |-> FALSE, covered |-> {}, twice |-> {},
   failed |-> {}, nulls |-> {}, invalid |-> {}, session |-> "ok"]

FetchIdle ==
  /\ fetch = IdleFetch
  /\ tasks = <<>>
  /\ odd = {}
  /\ cache = {}
  /\ clock = [now |-> 0, ticks |-> 0]
  /\ got = NoGet
  /\ written = [key \in CacheKeys |-> NoSet]
  /\ served = 0

IdleView == [pc |-> "off", year |-> 0, transfers |-> <<>>, totals |-> <<>>, merged |-> <<>>]
IdleStream ==
  [pc |-> "off", session |-> "none", totalCount |-> 0, processedCount |-> 0, counted |-> 0,
   events |-> <<>>, closed |-> FALSE]
Periods == {"2024-03-19", "2024-03-20", "2024-03-21"}
IdlePage ==
  [pc |-> "off", selectedDate |-> "", transfers |-> "", loading |-> FALSE, error |-> FALSE,
   effect |-> FALSE, inflight |-> [p \in Periods |-> 0], issued |-> 0, log |-> <<>>]

PageIdle ==
  /\ view = IdleView
  /\ stream = IdleStream
  /\ page = IdlePage

(***************************************************************************)
(* SpecMerge: mergeTips applied to every pair of bounded inputs.  local is *)
(* what TipsDatabase.getTips returns (the store's key path is id, so its   *)
(* identifiers are distinct); remote is whatever the response carried.     *)
(***************************************************************************)
LocalInputs ==
  { s \in SeqsUpTo({ t \in Tips : t.amount = 5 /\ t.note = "" }, MaxMergeLen) :
      DistinctIds(s) }
RemoteInputs == SeqsUpTo({ t \in Tips : t.note = "" }, MaxMergeLen)

InitMerge ==
  /\ mLocal \in LocalInputs
  /\ mRemote \in RemoteInputs
  /\ mMerged = <<>>
  /\ mPc = "input"
  /\ MirrorIdle
  /\ SyncIdle
  /\ FetchIdle
  /\ PageIdle

Merge ==
  /\ mPc = "input"
  /\ mMerged' = mergeTips(mLocal, mRemote)
  /\ mPc' = "merged"
  /\ UNCHANGED <<mLocal, mRemote, mirrorVars, syncVars, fetchVars, pageVars>>

NextMerge == Merge

SpecMerge == InitMerge /\ [][NextMerge]_vars

(***************************************************************************)
(* SpecMirror: requests to /api/tips/sync from any number of pages and     *)
(* devices of one user, each slot serving one request.                     *)
(***************************************************************************)
MirrorTips == { t \in Tips : t.amount = 5 /\ t.note = "" /\ ~t.synced }
SaveCollections == { s \in SeqsUpTo(MirrorTips, MaxSaveLen) : DistinctIds(s) }

InitMirror ==
  /\ MirrorIdle
  /\ MergeIdle
  /\ SyncIdle
  /\ FetchIdle
  /\ PageIdle

Save(r) ==
  \E tips \in SaveCollections, sess \in Sessions :
    PostBegin(r, tips, sess) /\ UNCHANGED <<mergeVars, pageVars, syncVars, fetchVars>>

Load(r) ==
  \E sess \in Sessions : GetBegin(r, sess) /\ UNCHANGED <<mergeVars, pageVars, syncVars, fetchVars>>

Handler(r) ==
  \/ FindDraft(r) /\ UNCHANGED <<mergeVars, pageVars, syncVars, fetchVars>>
  \/ PostWrite(r) /\ UNCHANGED <<mergeVars, pageVars, syncVars, fetchVars>>
  \/ PostWriteThrows(r) /\ UNCHANGED <<mergeVars, pageVars, syncVars, fetchVars>>
  \/ GetRead(r) /\ UNCHANGED <<mergeVars, pageVars, syncVars, fetchVars>>
  \/ GetReadThrows(r) /\ UNCHANGED <<mergeVars, pageVars, syncVars, fetchVars>>

NextMirror ==
  \/ \E r \in Slots : Save(r)
  \/ \E r \in Slots : Load(r)
  \/ \E r \in Slots : Handler(r)

SpecMirror == InitMirror /\ [][NextMirror]_vars

(***************************************************************************)
(* TipsDatabase (src/lib/db.ts).                                           *)
(***************************************************************************)
NewTipInputs == { [amount |-> 5, date |-> 21, note |-> ""] }

\* db.put(STORE_NAME, tip)
Put(st, tip) == (tip.id :> tip) @@ st

\* db.delete(STORE_NAME, id)
Delete(st, id) == [i \in (DOMAIN st) \ {id} |-> st[i]]

Before(a, b) == a.date < b.date \/ (a.date = b.date /\ a.id < b.id)

\* getTips: getAllFromIndex(STORE_NAME, 'by-date'), ordered by date, then by key
getTips(st) ==
  LET n == Cardinality(DOMAIN st)
  IN IF n = 0 THEN <<>>
     ELSE CHOOSE s \in [1..n -> { st[i] : i \in DOMAIN st }] :
            \A i, j \in 1..n : i < j => Before(s[i], s[j])

\* the records of a collection without their synced flag
Content(tips) ==
  { [id |-> t.id, amount |-> t.amount, date |-> t.date, note |-> t.note] :
      t \in { tips[i] : i \in DOMAIN tips } }

(***************************************************************************)
(* SyncService (src/lib/sync.ts).                                          *)
(***************************************************************************)
RemoveAt(seq, c) == [i \in 1..(Len(seq) - 1) |-> IF i < c THEN seq[i] ELSE seq[i + 1]]

Settled(kind) == [outcomes EXCEPT ![kind] = @ + 1]

\* sync(), lines 48-50: the guard
GuardNever(flag) == FALSE

GuardReturns(flag) == flag

\* sync(), lines 80-82: the finally block, after a failure or after success
ReleasedOnSuccessOnly(failed) == failed

FlagAfterFinally(failed) == FALSE

\* sync() up to its first await (lines 48-56)
sync ==
  IF GuardReturns(syncInProgress)
  THEN /\ outcomes' = Settled("skipped")
       /\ UNCHANGED <<syncInProgress, calls>>
  ELSE /\ calls' = Append(calls, NewCall)
       /\ syncInProgress' = TRUE
       /\ UNCHANGED outcomes

\* addTip, line 87: db.addTip (db.ts:46-57)
AddTip(input) ==
  /\ nextId <= MaxId
  /\ store' = Put(store, Tip(nextId, input.amount, input.date, input.note, FALSE))
  /\ nextId' = nextId + 1
  /\ callers' = [callers EXCEPT !.addTip = @ + 1]
  /\ stale' = TRUE
  /\ UNCHANGED <<callVars, init, countVars, pushedOK, adopted, mergeVars, pageVars, fetchVars, mirrorVars>>

AddTipAwaitsSync ==
  /\ callers.addTip > 0
  /\ calls = <<>>
  /\ sync
  /\ UNCHANGED <<callers, dbVars, init, countVars, histVars, mergeVars, pageVars, fetchVars, mirrorVars>>

\* addTip, lines 89-92: this.sync().catch(console.error); return newTip
AddTipSync ==
  /\ callers.addTip > 0
  /\ callers' = [callers EXCEPT !.addTip = @ - 1]
  /\ sync
  /\ UNCHANGED <<dbVars, init, countVars, histVars, mergeVars, pageVars, fetchVars, mirrorVars>>

\* deleteTip, line 97: db.deleteTip (db.ts:75-78)
DeleteTip(id) ==
  /\ deletes < MaxDeletes
  /\ id \in DOMAIN store
  /\ store' = Delete(store, id)
  /\ deletes' = deletes + 1
  /\ callers' = [callers EXCEPT !.deleteTip = @ + 1]
  /\ stale' = TRUE
  /\ UNCHANGED <<nextId, callVars, init, inits, pushedOK, adopted, mergeVars, pageVars, fetchVars, mirrorVars>>

\* deleteTip, lines 99-100
DeleteTipSync ==
  /\ callers.deleteTip > 0
  /\ callers' = [callers EXCEPT !.deleteTip = @ - 1]
  /\ sync
  /\ UNCHANGED <<dbVars, init, countVars, histVars, mergeVars, pageVars, fetchVars, mirrorVars>>

\* the catch and finally blocks of sync(), lines 77-82: the call rejects
Reject(c) ==
  /\ calls' = RemoveAt(calls, c)
  /\ syncInProgress' = FlagAfterFinally(TRUE)
  /\ outcomes' = Settled("rejected")

\* sync(), lines 56-65: getTips resolves and the POST is sent and received
SyncGetTips(c) ==
  /\ calls[c].pc = "getTips"
  /\ \E r \in Slots, sess \in Sessions :
       /\ PostBegin(r, getTips(store), sess)
       /\ calls' = [calls EXCEPT ![c].pc = "fetch", ![c].localTips = getTips(store),
                                 ![c].slot = r]
  /\ stale' = FALSE
  /\ UNCHANGED <<dbVars, syncInProgress, outcomes, callers, init, countVars,
                 pushedOK, adopted, mergeVars, pageVars, fetchVars>>

\* sync(), line 56 or line 59 throws: the db read fails, or the request is not sent
SyncGetTipsThrows(c) ==
  /\ calls[c].pc = "getTips"
  /\ Fails(1)
  /\ Reject(c)
  /\ UNCHANGED <<dbVars, callers, init, countVars, histVars, mergeVars, pageVars, fetchVars, drafts, reqs>>

\* the smallest index from `from` on of a tip with !tip.synced, 0 when none
NextUnsynced(tips, from) ==
  LET S == { i \in from..Len(tips) : ~tips[i].synced }
  IN IF S = {} THEN 0 ELSE CHOOSE i \in S : \A j \in S : i <= j

\* the loop of lines 72-76 from index `from`, and the finally block after it
MarkFrom(c, from) ==
  LET n == NextUnsynced(calls[c].localTips, from)
  IN IF n = 0
     THEN /\ calls' = RemoveAt(calls, c)
          /\ syncInProgress' = FlagAfterFinally(FALSE)
          /\ outcomes' = Settled("resolved")
     ELSE /\ calls' = [calls EXCEPT ![c].pc = "markGet", ![c].idx = n, ![c].slot = NoSlot]
          /\ UNCHANGED <<syncInProgress, outcomes>>

responseOkAlways(status) == TRUE

\* response.ok of the fetch API
responseOk(status) == status \in 200..299

\* sync(), lines 67-72: the response arrives
SyncResponse(c) ==
  /\ calls[c].pc = "fetch"
  /\ reqs[calls[c].slot].pc = "done"
  /\ reqs' = [reqs EXCEPT ![calls[c].slot] = IdleReq]
  /\ IF responseOk(reqs[calls[c].slot].resp.status)
     THEN /\ MarkFrom(c, 1)
          /\ pushedOK' = pushedOK \cup Ids(calls[c].localTips)
     ELSE /\ Reject(c)
          /\ UNCHANGED pushedOK
  /\ UNCHANGED <<dbVars, callers, init, countVars, adopted, stale, mergeVars, pageVars, fetchVars,
                 drafts, faults>>

\* sync(), line 59: fetch rejects although the handler has run (the answer is lost)
SyncNetworkError(c) ==
  /\ calls[c].pc = "fetch"
  /\ reqs[calls[c].slot].pc = "done"
  /\ Fails(1)
  /\ reqs' = [reqs EXCEPT ![calls[c].slot] = IdleReq]
  /\ Reject(c)
  /\ UNCHANGED <<dbVars, callers, init, countVars, histVars, mergeVars, pageVars, fetchVars, drafts>>

\* markAsSynced (db.ts:86-89): db.get
MarkGet(c) ==
  /\ calls[c].pc = "markGet"
  /\ LET id == calls[c].localTips[calls[c].idx].id
     IN IF id \in DOMAIN store
        THEN /\ calls' = [calls EXCEPT ![c].pc = "markPut", ![c].tip = store[id]]
             /\ UNCHANGED <<syncInProgress, outcomes>>
        ELSE MarkFrom(c, calls[c].idx + 1)
  /\ UNCHANGED <<dbVars, callers, init, countVars, histVars, mergeVars, pageVars, fetchVars, mirrorVars>>

\* markAsSynced (db.ts:90-91): tip.synced = true; db.put
MarkPut(c) ==
  /\ calls[c].pc = "markPut"
  /\ store' = Put(store, [calls[c].tip EXCEPT !.synced = TRUE])
  /\ MarkFrom(c, calls[c].idx + 1)
  /\ UNCHANGED <<nextId, callers, init, countVars, histVars, mergeVars, pageVars, fetchVars, mirrorVars>>

\* markAsSynced throws
MarkThrows(c) ==
  /\ calls[c].pc \in {"markGet", "markPut"}
  /\ Fails(1)
  /\ Reject(c)
  /\ UNCHANGED <<dbVars, callers, init, countVars, histVars, mergeVars, pageVars, fetchVars, drafts, reqs>>

\* initialize() returns: at the end of the try block, or from the catch of
\* lines 30-32, which logs the error and lets the promise resolve
Returned(failure) == [IdleInit EXCEPT !.settled = "resolved", !.failure = failure]

\* initialize(), line 14: the GET is sent and received
InitializeBegin ==
  /\ init.pc = "idle"
  /\ inits < MaxInits
  /\ inits' = inits + 1
  /\ \E r \in Slots, sess \in Sessions :
       /\ GetBegin(r, sess)
       /\ init' = [IdleInit EXCEPT !.pc = "fetch", !.slot = r]
  /\ UNCHANGED <<dbVars, callVars, callers, deletes, histVars, mergeVars, pageVars, fetchVars>>

\* initialize(), line 14 throws, caught at lines 30-32
InitializeFetchThrows ==
  /\ init.pc = "idle"
  /\ inits < MaxInits
  /\ inits' = inits + 1
  /\ Fails(1)
  /\ init' = Returned("fetch")
  /\ UNCHANGED <<dbVars, callVars, callers, deletes, histVars, mergeVars, pageVars, fetchVars, drafts, reqs>>

\* initialize(), lines 15-18: the response arrives
InitializeResponse ==
  /\ init.pc = "fetch"
  /\ reqs[init.slot].pc = "done"
  /\ reqs' = [reqs EXCEPT ![init.slot] = IdleReq]
  /\ init' = IF responseOk(reqs[init.slot].resp.status)
             THEN [init EXCEPT !.pc = "getTips", !.slot = NoSlot,
                               !.remote = reqs[init.slot].resp.body]
             ELSE Returned("notOk")
  /\ UNCHANGED <<dbVars, callVars, callers, countVars, histVars, mergeVars, pageVars, fetchVars,
                 drafts, faults>>

forEachNeverThrows(remote) == FALSE

\* mergeTips, line 42: remote.forEach throws a TypeError when remoteTips is an
\* object and not an array
forEachThrows(remote) == remote.kind # "array"

\* initialize(), lines 21-24: getTips resolves, mergeTips runs
InitializeMerge ==
  /\ init.pc = "getTips"
  /\ init' = IF forEachThrows(init.remote) THEN Returned("notArray")
             ELSE IF mergeTips(getTips(store), init.remote.items) = <<>> THEN Returned("none")
             ELSE [init EXCEPT !.pc = "update",
                               !.queue = mergeTips(getTips(store), init.remote.items)]
  /\ UNCHANGED <<dbVars, callVars, callers, countVars, histVars, mergeVars, pageVars, fetchVars, mirrorVars>>

\* initialize(), lines 27-29: one db.updateTip({ ...tip, synced: true })
InitializeUpdate ==
  /\ init.pc = "update"
  /\ store' = Put(store, [Head(init.queue) EXCEPT !.synced = TRUE])
  /\ adopted' = adopted \cup (IF Head(init.queue).id \in Ids(init.remote.items)
                              THEN {Head(init.queue).id} ELSE {})
  /\ init' = IF Tail(init.queue) = <<>> THEN Returned("none")
             ELSE [init EXCEPT !.queue = Tail(@)]
  /\ UNCHANGED <<nextId, callVars, callers, countVars, pushedOK, stale, mergeVars, pageVars, fetchVars,
                 mirrorVars>>

\* initialize(): db.getTips or db.updateTip throws, caught at lines 30-32
InitializeDbThrows ==
  /\ init.pc \in {"getTips", "update"}
  /\ Fails(1)
  /\ init' = Returned("db")
  /\ UNCHANGED <<dbVars, callVars, callers, countVars, histVars, mergeVars, pageVars, fetchVars, drafts, reqs>>

(***************************************************************************)
(* SpecSync: one page with its SyncService, the local store and the        *)
(* mirror.  The store and the mailbox start empty.                         *)
(***************************************************************************)
InitSync ==
  /\ SyncIdle
  /\ MirrorIdle
  /\ MergeIdle
  /\ FetchIdle
  /\ PageIdle

SyncStep ==
  \/ \E c \in DOMAIN calls : SyncGetTips(c)
  \/ \E c \in DOMAIN calls : SyncGetTipsThrows(c)
  \/ \E c \in DOMAIN calls : SyncResponse(c)
  \/ \E c \in DOMAIN calls : SyncNetworkError(c)
  \/ \E c \in DOMAIN calls : MarkGet(c)
  \/ \E c \in DOMAIN calls : MarkPut(c)
  \/ \E c \in DOMAIN calls : MarkThrows(c)

ServerStep == \E r \in Slots : Handler(r)

InitializeStep ==
  \/ InitializeBegin
  \/ InitializeFetchThrows
  \/ InitializeResponse
  \/ InitializeMerge
  \/ InitializeUpdate
  \/ InitializeDbThrows

NextSync ==
  \/ \E input \in NewTipInputs : AddTip(input)
  \/ AddTipSync
  \/ \E id \in TipIds : DeleteTip(id)
  \/ DeleteTipSync
  \/ SyncStep
  \/ ServerStep
  \/ InitializeStep

SpecSync == InitSync /\ [][NextSync]_vars

\* every await of sync() settles and every handler runs to its response
FairSpecSync == SpecSync /\ WF_vars(SyncStep) /\ WF_vars(ServerStep)

(***************************************************************************)
(* The period cache: MonthlyCacheService over its keyed object store.      *)
(***************************************************************************)
\* the cache key of a request: `monthly-${year}`, `transfers-${date}`
cacheKey(endpoint) == IF endpoint = "monthly" THEN "monthly-2024" ELSE "transfers-2024-03-21"

Payloads == {{}, {1}}
TickSteps == {1, CACHE_TTL - 1}

Hit(data) == [hit |-> TRUE, data |-> data]

\* db.get(STORE_NAME, key)
dbGet(st, key) ==
  IF \E e \in st : e.key = key THEN CHOOSE e \in st : e.key = key ELSE NoEntry

PutBeside(st, entry) == st \cup {entry}

\* db.put(STORE_NAME, entry) on a store with keyPath 'key'
dbPut(st, entry) == { e \in st : e.key # entry.key } \cup {entry}

\* db.delete(STORE_NAME, key)
dbDelete(st, key) == { e \in st : e.key # key }

ExpiredInclusive(entry, now) == entry.expiresAt <= now

\* get: entry.expiresAt < Date.now()
Expired(entry, now) == entry.expiresAt < now

\* get: what is returned
cacheGet(st, key, now) ==
  LET entry == dbGet(st, key)
  IN  IF entry = NoEntry \/ Expired(entry, now) THEN Absent ELSE Hit(entry.data)

\* get: the store it leaves, the expired entry removed
cacheGetStore(st, key, now) ==
  LET entry == dbGet(st, key)
  IN  IF entry # NoEntry /\ Expired(entry, now) THEN dbDelete(st, key) ELSE st

\* set
cacheSet(st, key, data, now) ==
  dbPut(st, [key |-> key, data |-> data, timestamp |-> now, expiresAt |-> now + CACHE_TTL])

\* clearExpired: the keys of the by-expiry index up to now, deleted
clearExpired(st, now) == { e \in st : ~(e.expiresAt <= now) }

CacheCallGet(key) ==
  /\ got' = [key |-> key, at |-> clock.now, before |-> cache,
             result |-> cacheGet(cache, key, clock.now)]
  /\ cache' = cacheGetStore(cache, key, clock.now)
  /\ UNCHANGED <<clock, written>>
  /\ UNCHANGED <<fetch, tasks, odd, served, mergeVars, pageVars, mirrorVars, syncVars>>

CacheCallSet(key, data) ==
  /\ cache' = cacheSet(cache, key, data, clock.now)
  /\ written' = [written EXCEPT ![key] =
       [sets |-> IF written[key].sets > 0 /\ written[key].data = data THEN 2 ELSE 1,
        data |-> data, at |-> clock.now]]
  /\ got' = NoGet
  /\ UNCHANGED clock
  /\ UNCHANGED <<fetch, tasks, odd, served, mergeVars, pageVars, mirrorVars, syncVars>>

CacheCallDelete(key) ==
  /\ cache' = dbDelete(cache, key)
  /\ written' = [written EXCEPT ![key] = NoSet]
  /\ got' = NoGet
  /\ UNCHANGED clock
  /\ UNCHANGED <<fetch, tasks, odd, served, mergeVars, pageVars, mirrorVars, syncVars>>

CacheClearExpired ==
  /\ cache' = clearExpired(cache, clock.now)
  /\ written' = [key \in CacheKeys |->
       IF dbGet(cache', key) = NoEntry /\ dbGet(cache, key) # NoEntry
       THEN NoSet ELSE written[key]]
  /\ got' = NoGet
  /\ UNCHANGED clock
  /\ UNCHANGED <<fetch, tasks, odd, served, mergeVars, pageVars, mirrorVars, syncVars>>

\* time passes
Tick(d) ==
  /\ clock.ticks < MaxTicks
  /\ clock' = [now |-> clock.now + d, ticks |-> clock.ticks + 1]
  /\ got' = NoGet
  /\ UNCHANGED <<cache, written>>
  /\ UNCHANGED <<fetch, tasks, odd, served, mergeVars, pageVars, mirrorVars, syncVars>>

NextCache ==
  \/ \E key \in CacheKeys : CacheCallGet(key)
  \/ \E key \in CacheKeys, data \in Payloads : CacheCallSet(key, data)
  \/ \E key \in CacheKeys : CacheCallDelete(key)
  \/ CacheClearExpired
  \/ \E d \in TickSteps : Tick(d)

(***************************************************************************)
(* The transfer endpoints: GET /api/gmail (legacy, one message at a time), *)
(* GET /api/gmail/daily and GET /api/gmail/monthly (batches).              *)
(* The provider answers the first attempts of a batch in the order they    *)
(* were sent; the retries of a message run beside the later answers.       *)
(***************************************************************************)
BATCH_SIZE == 10
MAX_RETRIES == 3

FetchSessions == {"ok", "noToken", "none"}
ProviderErrors == {401, 403, 429, 500}
Contents == {"transfer", "noDate", "noAmount", "badDate"}
Settlements == {"value", "null", "rejected"}
NewTask == [st |-> "pending", retryCount |-> 0, reason |-> 0, attempts |-> 1, wait |-> 0]

Min(a, b) == IF a < b THEN a ELSE b

SliceShort(i, n) == (i + 1)..Min(i + BATCH_SIZE - 1, n)

\* messages.slice(i, i + BATCH_SIZE), by position in the listing
Slice(i, n) == (i + 1)..Min(i + BATCH_SIZE, n)

\* the response leaves the handler
Respond(f, status, body) ==
  /\ fetch' = [f EXCEPT !.pc = "done", !.status = status, !.body = body]
  /\ served' = served + 1

\* the outer catch of each handler
OuterCatch(endpoint, reason) ==
  CASE endpoint = "daily" -> IF reason \in {401, 403} THEN 401 ELSE 500
    [] endpoint = "monthly" -> 500
    [] OTHER -> 401

SessionRefusedNever(endpoint, sess) == FALSE

\* the session checks at the top of each handler
SessionRefused(endpoint, sess) ==
  \/ sess = "none"
  \/ endpoint # "monthly" /\ sess = "noToken"

\* GET: the request arrives and the session is read
FetchBegin(endpoint, sess) ==
  /\ fetch.pc \in {"idle", "done"}
  /\ served < MaxServed
  /\ tasks' = <<>>
  /\ LET f == [IdleFetch EXCEPT !.endpoint = endpoint, !.session = sess]
     IN  IF SessionRefused(endpoint, sess)
         THEN Respond(f, 401, {})
         ELSE /\ fetch' = [f EXCEPT !.pc = IF endpoint = "legacy" THEN "list" ELSE "cache"]
              /\ UNCHANGED served
  /\ UNCHANGED <<odd, cacheVars, mergeVars, pageVars, mirrorVars, syncVars>>

\* GET: cache.get(cacheKey), answered from the cache on a hit
CacheGet ==
  /\ fetch.pc = "cache"
  /\ LET cachedData == cacheGet(cache, cacheKey(fetch.endpoint), clock.now)
     IN  IF cachedData.hit
         THEN Respond([fetch EXCEPT !.cached = TRUE], 200, cachedData.data)
         ELSE /\ fetch' = [fetch EXCEPT !.pc = "list"]
              /\ UNCHANGED served
  /\ cache' = cacheGetStore(cache, cacheKey(fetch.endpoint), clock.now)
  /\ UNCHANGED <<tasks, odd, clock, got, written, mergeVars, pageVars, mirrorVars, syncVars>>

\* the loop head: the next batch is sliced and all its fetches are sent
StartBatch(f, i) ==
  /\ fetch' = [f EXCEPT !.pc = "batch", !.i = i, !.batches = f.batches + 1,
                        !.lateBatch = f.lateBatch \/ f.exhausted,
                        !.covered = f.covered \cup Slice(i, f.n),
                        !.twice = f.twice \cup (f.covered \cap Slice(i, f.n))]
  /\ tasks' = [m \in Slice(i, f.n) |-> NewTask]
  /\ UNCHANGED served

\* the loop condition i < messages.length
LoopOrFinish(f, i) ==
  IF i < f.n
  THEN StartBatch(f, i)
  ELSE /\ fetch' = [f EXCEPT !.pc = "finish"]
       /\ tasks' = <<>>
       /\ UNCHANGED served

\* gmail.users.messages.list answers
ListMessages ==
  /\ fetch.pc = "list"
  /\ \/ \E n \in 0..MaxMsgs :
          LET f == [fetch EXCEPT !.n = n]
          IN  IF fetch.endpoint = "legacy"
              THEN IF n = 0
                   THEN Respond(f, 200, {}) /\ UNCHANGED tasks
                   ELSE /\ fetch' = [f EXCEPT !.pc = "loop", !.k = 1]
                        /\ UNCHANGED <<tasks, served>>
              ELSE LoopOrFinish(f, 0)
     \/ \E reason \in ProviderErrors :
          /\ Respond([fetch EXCEPT !.authRejected = reason \in {401, 403}],
                     OuterCatch(fetch.endpoint, reason), {})
          /\ UNCHANGED tasks
  /\ UNCHANGED <<odd, cacheVars, mergeVars, pageVars, mirrorVars, syncVars>>

\* a fetch that does not give a plain transfer counts against the bound
Odd(m) ==
  /\ <<served, m>> \in odd \/ Cardinality(odd) < MaxOdd
  /\ odd' = odd \cup {<<served, m>>}

\* what processEmail returns for a fetched message
Extract(content) == IF content \in {"transfer", "badDate"} THEN "value" ELSE "null"

\* the first attempts are answered in the order they were sent
MayAnswer(m) ==
  /\ m \in DOMAIN tasks
  /\ tasks[m].st = "pending"
  /\ tasks[m].retryCount = 0 =>
       \A j \in DOMAIN tasks : j < m => ~(tasks[j].st = "pending" /\ tasks[j].retryCount = 0)

\* processEmail: messages.get answers and the message is read
EmailFetched(m) ==
  /\ fetch.pc = "batch"
  /\ MayAnswer(m)
  /\ \E content \in Contents :
       /\ IF content = "transfer" THEN UNCHANGED odd ELSE Odd(m)
       /\ tasks' = [tasks EXCEPT ![m].st = Extract(content)]
       /\ fetch' = [fetch EXCEPT
            !.nulls = IF Extract(content) = "null" THEN fetch.nulls \cup {m} ELSE fetch.nulls,
            !.invalid = IF content = "badDate" THEN fetch.invalid \cup {m} ELSE fetch.invalid]
  /\ UNCHANGED <<cacheVars, served, mergeVars, pageVars, mirrorVars, syncVars>>

\* Math.pow(2, retryCount) * 1000, the milliseconds of the backoff timer
Backoff(retryCount) == (2 ^ retryCount) * 1000

RetryAnyFailure(reason, retryCount) == retryCount < MAX_RETRIES

\* processEmail, the condition of the catch
ShouldRetry(reason, retryCount) == reason = 429 /\ retryCount < MAX_RETRIES

\* processEmail, the catch: a 429 below the retry limit waits, anything else is thrown
EmailRejected(m) ==
  /\ fetch.pc = "batch"
  /\ MayAnswer(m)
  /\ Odd(m)
  /\ \E reason \in ProviderErrors :
       IF ShouldRetry(reason, tasks[m].retryCount)
       THEN /\ tasks' = [tasks EXCEPT ![m].st = "waiting", ![m].reason = reason,
                                      ![m].wait = Backoff(tasks[m].retryCount)]
            /\ UNCHANGED fetch
       ELSE /\ tasks' = [tasks EXCEPT ![m].st = "rejected", ![m].reason = reason]
            /\ fetch' = [fetch EXCEPT
                 !.exhausted = fetch.exhausted \/ reason = 429,
                 !.failed = IF reason = 429 THEN fetch.failed ELSE fetch.failed \cup {m},
                 !.authRejected = fetch.authRejected \/ reason \in {401, 403}]
  /\ UNCHANGED <<cacheVars, served, mergeVars, pageVars, mirrorVars, syncVars>>

\* processEmail: the backoff timer fires and the message is fetched again
EmailRetry(m) ==
  /\ fetch.pc = "batch"
  /\ m \in DOMAIN tasks
  /\ tasks[m].st = "waiting"
  /\ tasks' = [tasks EXCEPT ![m].st = "pending", ![m].retryCount = tasks[m].retryCount + 1,
                             ![m].attempts = tasks[m].attempts + 1]
  /\ UNCHANGED <<fetch, odd, cacheVars, served, mergeVars, pageVars, mirrorVars, syncVars>>

AllSettled == \A m \in DOMAIN tasks : tasks[m].st \in Settlements
Fulfilled == { m \in DOMAIN tasks : tasks[m].st = "value" }
RateLimited == \E m \in DOMAIN tasks : tasks[m].st = "rejected" /\ tasks[m].reason = 429

BatchThrowsOnAnyRejection(endpoint) ==
  \E m \in DOMAIN tasks : tasks[m].st = "rejected"

\* processBatch of the monthly endpoint rethrows a rate limit; the daily one does not
BatchThrows(endpoint) == endpoint = "monthly" /\ RateLimited

\* processBatch returns or throws after Promise.allSettled; the loop goes on
BatchSettled ==
  /\ fetch.pc = "batch"
  /\ AllSettled
  /\ LET f == [fetch EXCEPT !.transfers = fetch.transfers \cup Fulfilled]
     IN  IF BatchThrows(fetch.endpoint)
         THEN Respond(fetch, 429, {}) /\ tasks' = <<>>
         ELSE IF fetch.endpoint = "monthly"
              THEN /\ fetch' = [f EXCEPT !.pc = "delay"]
                   /\ tasks' = <<>>
                   /\ UNCHANGED served
              ELSE LoopOrFinish(f, fetch.i + BATCH_SIZE)
  /\ UNCHANGED <<odd, cacheVars, mergeVars, pageVars, mirrorVars, syncVars>>

\* monthly GET: the 500 ms pause after a batch
BatchDelay ==
  /\ fetch.pc = "delay"
  /\ LoopOrFinish(fetch, fetch.i + BATCH_SIZE)
  /\ UNCHANGED <<odd, cacheVars, mergeVars, pageVars, mirrorVars, syncVars>>

\* monthly GET: format(transfer.date, 'MMMM yyyy') throws on an Invalid Date
GroupingThrows(f) == f.endpoint = "monthly" /\ f.invalid \cap f.transfers # {}

\* GET: the result is ordered or grouped, cached and returned
FetchFinish ==
  /\ fetch.pc = "finish"
  /\ IF GroupingThrows(fetch)
     THEN Respond(fetch, 500, {}) /\ UNCHANGED cache
     ELSE /\ cache' = cacheSet(cache, cacheKey(fetch.endpoint), fetch.transfers, clock.now)
          /\ Respond(fetch, 200, fetch.transfers)
  /\ UNCHANGED <<tasks, odd, clock, got, written, mergeVars, pageVars, mirrorVars, syncVars>>

\* legacy GET: the loop went past message k
LegacyNext(f) ==
  IF f.k < f.n
  THEN fetch' = [f EXCEPT !.k = f.k + 1] /\ UNCHANGED served
  ELSE Respond(f, 200, f.transfers)

\* legacy GET: one message is fetched and read
LegacyFetched ==
  /\ fetch.pc = "loop"
  /\ \E content \in Contents :
       /\ IF content = "transfer" THEN UNCHANGED odd ELSE Odd(fetch.k)
       /\ LegacyNext([fetch EXCEPT
            !.transfers = IF Extract(content) = "value" THEN fetch.transfers \cup {fetch.k}
                          ELSE fetch.transfers,
            !.nulls = IF Extract(content) = "null" THEN fetch.nulls \cup {fetch.k}
                      ELSE fetch.nulls,
            !.invalid = IF content = "badDate" THEN fetch.invalid \cup {fetch.k}
                        ELSE fetch.invalid])
  /\ UNCHANGED <<tasks, cacheVars, mergeVars, pageVars, mirrorVars, syncVars>>

\* legacy GET, the inner catch: 401 and 403 end the request, the rest is skipped
LegacyRejected ==
  /\ fetch.pc = "loop"
  /\ Odd(fetch.k)
  /\ \E reason \in ProviderErrors :
       IF reason \in {401, 403}
       THEN Respond([fetch EXCEPT !.authRejected = TRUE], 401, {})
       ELSE LegacyNext(fetch)
  /\ UNCHANGED <<tasks, cacheVars, mergeVars, pageVars, mirrorVars, syncVars>>

InitFetch ==
  /\ FetchIdle
  /\ MergeIdle
  /\ MirrorIdle
  /\ SyncIdle
  /\ PageIdle

Messages == 1..MaxMsgs

SpecCache == InitFetch /\ [][NextCache]_vars

NextFetch ==
  \/ \E endpoint \in Endpoints, sess \in FetchSessions : FetchBegin(endpoint, sess)
  \/ CacheGet
  \/ ListMessages
  \/ \E m \in Messages : EmailFetched(m)
  \/ \E m \in Messages : EmailRejected(m)
  \/ \E m \in Messages : EmailRetry(m)
  \/ BatchSettled
  \/ BatchDelay
  \/ FetchFinish
  \/ LegacyFetched
  \/ LegacyRejected

SpecFetch == InitFetch /\ [][NextFetch]_vars

\* one request served from a cold cache
FirstFetch(endpoint, sess) == served = 0 /\ FetchBegin(endpoint, sess)

NextOneFetch ==
  \/ \E endpoint \in Endpoints, sess \in FetchSessions : FirstFetch(endpoint, sess)
  \/ CacheGet
  \/ ListMessages
  \/ \E m \in Messages : EmailFetched(m)
  \/ \E m \in Messages : EmailRejected(m)
  \/ \E m \in Messages : EmailRetry(m)
  \/ BatchSettled
  \/ BatchDelay
  \/ FetchFinish
  \/ LegacyFetched
  \/ LegacyRejected

SpecOneFetch == InitFetch /\ [][NextOneFetch]_vars

\* the provider answers every call and every timer fires
FairSpecOneFetch == SpecOneFetch /\ WF_vars(NextOneFetch)

(***************************************************************************)
(* SpecEndpoints: the route handlers that read the session, the two of     *)
(* /api/tips/sync and the three transfer endpoints.  The two families      *)
(* share no state; a run serves requests of one of them.                   *)
(***************************************************************************)
TipsUnused == reqs = [r \in Slots |-> IdleReq] /\ drafts = <<>> /\ faults = 0
FetchUnused == fetch = IdleFetch /\ served = 0

NextEndpoints ==
  \/ \E r \in Slots : FetchUnused /\ Save(r)
  \/ \E r \in Slots : FetchUnused /\ Load(r)
  \/ \E r \in Slots :
       FetchUnused /\ FindDraft(r) /\ UNCHANGED <<mergeVars, pageVars, syncVars, fetchVars>>
  \/ \E r \in Slots :
       FetchUnused /\ PostWrite(r) /\ UNCHANGED <<mergeVars, pageVars, syncVars, fetchVars>>
  \/ \E r \in Slots :
       FetchUnused /\ PostWriteThrows(r) /\ UNCHANGED <<mergeVars, pageVars, syncVars, fetchVars>>
  \/ \E r \in Slots :
       FetchUnused /\ GetRead(r) /\ UNCHANGED <<mergeVars, pageVars, syncVars, fetchVars>>
  \/ \E r \in Slots :
       FetchUnused /\ GetReadThrows(r) /\ UNCHANGED <<mergeVars, pageVars, syncVars, fetchVars>>
  \/ \E endpoint \in Endpoints, sess \in FetchSessions :
       TipsUnused /\ FirstFetch(endpoint, sess)
  \/ TipsUnused /\ CacheGet
  \/ TipsUnused /\ ListMessages
  \/ \E m \in Messages : TipsUnused /\ EmailFetched(m)
  \/ \E m \in Messages : TipsUnused /\ EmailRejected(m)
  \/ \E m \in Messages : TipsUnused /\ EmailRetry(m)
  \/ TipsUnused /\ BatchSettled
  \/ TipsUnused /\ BatchDelay
  \/ TipsUnused /\ FetchFinish
  \/ TipsUnused /\ LegacyFetched
  \/ TipsUnused /\ LegacyRejected

SpecEndpoints == InitFetch /\ [][NextEndpoints]_vars

(***************************************************************************)
(* The monthly totals: the grouping of GET /api/gmail/monthly and the      *)
(* twelve months of MonthlyOverviewPage.fetchMonthlyData.  A month label   *)
(* is the text format(date, 'MMMM yyyy') writes, kept as the month's name  *)
(* and the year's number.                                                  *)
(***************************************************************************)
MonthNames ==
  <<"January", "February", "March", "April", "May", "June", "July", "August",
    "September", "October", "November", "December">>

\* format(date, 'MMMM yyyy') of a date in month m of year y
formatMonth(m, y) == [name |-> MonthNames[m], year |-> y]

\* parse(label, 'MMMM yyyy', new Date()).getTime(), as an ordinal of the month
parseMonth(label) ==
  label.year * 12 + (CHOOSE k \in 1..12 : MonthNames[k] = label.name)

ViewYears == {2023, 2024}
ViewMonths == {1, 2, 12}
ViewAmounts == {3, 5}
ViewTransfers ==
  SeqsUpTo([month : ViewMonths, year : ViewYears, amount : ViewAmounts], MaxTransfers)

MonthTotal(label, totalAmount, numberOfTransfers) ==
  [month |-> label, totalAmount |-> totalAmount, numberOfTransfers |-> numberOfTransfers]

\* monthly GET, lines 149-158: one transfer added to the object monthlyTotals,
\* whose keys keep the order in which they were first set
addTransfer(totals, transfer) ==
  LET monthKey == formatMonth(transfer.month, transfer.year)
  IN  IF \E i \in 1..Len(totals) : totals[i].month = monthKey
      THEN [i \in 1..Len(totals) |->
              IF totals[i].month = monthKey
              THEN MonthTotal(monthKey, totals[i].totalAmount + transfer.amount,
                              totals[i].numberOfTransfers + 1)
              ELSE totals[i]]
      ELSE Append(totals, MonthTotal(monthKey, transfer.amount, 1))

RECURSIVE groupByMonth(_, _)
groupByMonth(totals, transfers) ==
  IF transfers = <<>> THEN totals
  ELSE groupByMonth(addTransfer(totals, Head(transfers)), Tail(transfers))

\* one entry put in its place in an array ordered by parsed month
insertByDate(sorted, entry) ==
  LET before == { i \in 1..Len(sorted) : parseMonth(sorted[i].month) <= parseMonth(entry.month) }
      k == Cardinality(before)
  IN  SubSeq(sorted, 1, k) \o <<entry>> \o SubSeq(sorted, k + 1, Len(sorted))

\* monthly GET, lines 161-168: Object.entries(...).sort by parsed month
RECURSIVE sortByDate(_, _)
sortByDate(sorted, entries) ==
  IF entries = <<>> THEN sorted
  ELSE sortByDate(insertByDate(sorted, Head(entries)), Tail(entries))

\* monthly GET, lines 146-168: the array that is cached and returned
monthlyTotalsArray(transfers) == sortByDate(<<>>, groupByMonth(<<>>, transfers))

\* fetchMonthlyData: eachMonthOfInterval over the year, every month at zero
allMonths(year) == [k \in 1..12 |-> MonthTotal(formatMonth(k, year), 0, 0)]

\* data.monthlyTotals.find(d => d.month === month.month): the first match's index, 0 for none
findMonth(totals, label) ==
  LET found == { i \in 1..Len(totals) : totals[i].month = label }
  IN  IF found = {} THEN 0 ELSE CHOOSE i \in found : \A j \in found : i <= j

mergeMonthsAsReturned(year, totals) == totals

\* fetchMonthlyData: allMonths.map(month => actualData || month)
mergeMonths(year, totals) ==
  [k \in 1..12 |->
     IF findMonth(totals, allMonths(year)[k].month) # 0
     THEN totals[findMonth(totals, allMonths(year)[k].month)]
     ELSE allMonths(year)[k]]

InitMonthView ==
  /\ view \in { [IdleView EXCEPT !.pc = "input", !.year = y, !.transfers = t] :
                  y \in ViewYears, t \in ViewTransfers }
  /\ stream = IdleStream
  /\ page = IdlePage
  /\ MergeIdle
  /\ MirrorIdle
  /\ SyncIdle
  /\ FetchIdle

\* the endpoint answers with the totals of the transfers it read
MonthlyRespond ==
  /\ view.pc = "input"
  /\ view' = [view EXCEPT !.pc = "responded", !.totals = monthlyTotalsArray(view.transfers)]
  /\ UNCHANGED <<stream, page, mergeVars, mirrorVars, syncVars, fetchVars>>

\* the page lays the answer over the twelve months of the requested year
MonthlyMerge ==
  /\ view.pc = "responded"
  /\ view' = [view EXCEPT !.pc = "merged", !.merged = mergeMonths(view.year, view.totals)]
  /\ UNCHANGED <<stream, page, mergeVars, mirrorVars, syncVars, fetchVars>>

NextMonthView ==
  \/ MonthlyRespond
  \/ MonthlyMerge

SpecMonthView == InitMonthView /\ [][NextMonthView]_vars

(***************************************************************************)
(* The streaming monthly endpoint (the second GET of monthly/route.ts): a  *)
(* ReadableStream whose start() lists the year's messages and reads them   *)
(* one at a time, enqueueing an event after each.  The run is that of a    *)
(* client that reads the stream to its end.                                *)
(***************************************************************************)
Progress(current, total) == [type |-> "progress", current |-> current, total |-> total]
DataEvent == [type |-> "data", current |-> 0, total |-> 0]
\* { error: ... }: the one event without a type
ErrorEvent == [type |-> "error", current |-> 0, total |-> 0]

\* controller.enqueue(event); controller.close()
Terminate(st, event) ==
  [st EXCEPT !.pc = "done", !.events = Append(st.events, event), !.closed = TRUE]

\* start(), lines 213-219: the session is read
StreamBegin(sess) ==
  /\ stream.pc = "start"
  /\ stream' = IF sess = "none"
               THEN Terminate([stream EXCEPT !.session = sess], ErrorEvent)
               ELSE [stream EXCEPT !.pc = "list", !.session = sess]
  /\ UNCHANGED <<view, page, mergeVars, mirrorVars, syncVars, fetchVars>>

\* start(), lines 231-246: messages.list answers and the first progress event is sent
StreamList(n) ==
  /\ stream.pc = "list"
  /\ stream' = [stream EXCEPT !.pc = "loop", !.totalCount = n,
                              !.events = Append(stream.events, Progress(0, n))]
  /\ UNCHANGED <<view, page, mergeVars, mirrorVars, syncVars, fetchVars>>

\* start(), lines 250-252: processedCount++ and messages.get is called
StreamNext ==
  /\ stream.pc = "loop"
  /\ stream.processedCount < stream.totalCount
  /\ stream' = [stream EXCEPT !.pc = "get", !.processedCount = stream.processedCount + 1]
  /\ UNCHANGED <<view, page, mergeVars, mirrorVars, syncVars, fetchVars>>

onSkippedSilent(events, current, total) == events

\* start(), lines 266-274: a message without a date or an amount
onSkipped(events, current, total) == Append(events, Progress(current, total))

\* start(), lines 258-292: the message is read; format throws on an Invalid Date
StreamFetched(content) ==
  /\ stream.pc = "get"
  /\ stream' =
       CASE content = "badDate" -> Terminate(stream, ErrorEvent)
         [] content \in {"noDate", "noAmount"} ->
              [stream EXCEPT !.pc = "loop",
                 !.events = onSkipped(stream.events, stream.processedCount, stream.totalCount)]
         [] OTHER ->
              [stream EXCEPT !.pc = "loop", !.counted = stream.counted + 1,
                 !.events = Append(stream.events,
                                   Progress(stream.processedCount, stream.totalCount))]
  /\ UNCHANGED <<view, page, mergeVars, mirrorVars, syncVars, fetchVars>>

\* start(), lines 311-315: a provider call throws
StreamThrows ==
  /\ stream.pc \in {"list", "get"}
  /\ stream' = Terminate(stream, ErrorEvent)
  /\ UNCHANGED <<view, page, mergeVars, mirrorVars, syncVars, fetchVars>>

\* start(), lines 294-310: the loop has ended, the totals are sent
StreamFinish ==
  /\ stream.pc = "loop"
  /\ stream.processedCount >= stream.totalCount
  /\ stream' = Terminate(stream, DataEvent)
  /\ UNCHANGED <<view, page, mergeVars, mirrorVars, syncVars, fetchVars>>

InitStream ==
  /\ stream = [IdleStream EXCEPT !.pc = "start"]
  /\ view = IdleView
  /\ page = IdlePage
  /\ MergeIdle
  /\ MirrorIdle
  /\ SyncIdle
  /\ FetchIdle

NextStream ==
  \/ \E sess \in {"ok", "noToken", "none"} : StreamBegin(sess)
  \/ \E n \in 0..MaxStream : StreamList(n)
  \/ StreamNext
  \/ \E content \in {"transfer", "noDate", "noAmount", "badDate"} : StreamFetched(content)
  \/ StreamThrows
  \/ StreamFinish

SpecStream == InitStream /\ [][NextStream]_vars

\* the provider answers every call
FairSpecStream == SpecStream /\ WF_vars(NextStream)

(***************************************************************************)
(* HistoryPage (src/app/dashboard/history/page.tsx): the selected date,    *)
(* the transfers on display, named by the date they belong to, and the     *)
(* fetchTransfers calls that wait for their response.  The responses       *)
(* arrive in any order.                                                    *)
(***************************************************************************)
Today == "2024-03-21"

\* fetchTransfers up to its first await (lines 56-62)
fetchTransfers(pg, date) ==
  [pg EXCEPT !.loading = TRUE, !.error = FALSE, !.inflight[date] = @ + 1,
             !.issued = pg.issued + 1]

\* the effect of lines 101-109, after the mount and after selectedDate changed
EffectFetch ==
  /\ page.pc = "on"
  /\ page.effect
  /\ page.issued < MaxRequests
  /\ page' = fetchTransfers([page EXCEPT !.effect = FALSE], page.selectedDate)
  /\ UNCHANGED <<view, stream, mergeVars, mirrorVars, syncVars, fetchVars>>

\* the date input's onChange (lines 145-155)
DateChange(date) ==
  /\ page.pc = "on"
  /\ ~page.effect
  /\ date # page.selectedDate
  /\ page.issued + 2 <= MaxRequests
  /\ page' = fetchTransfers([page EXCEPT !.selectedDate = date, !.effect = TRUE], date)
  /\ UNCHANGED <<view, stream, mergeVars, mirrorVars, syncVars, fetchVars>>

\* the Refresh button (lines 159-165), disabled while loading
Refresh ==
  /\ page.pc = "on"
  /\ ~page.effect
  /\ ~page.loading
  /\ page.issued < MaxRequests
  /\ page' = fetchTransfers(page, page.selectedDate)
  /\ UNCHANGED <<view, stream, mergeVars, mirrorVars, syncVars, fetchVars>>

AppliesIfSelected(date, selectedDate) == date = selectedDate

\* fetchTransfers, line 81: setTransfers runs whatever date is selected by now
Applies(date, selectedDate) == TRUE

\* fetchTransfers, lines 62-98: the response of the request for `date` is OK
TransfersResolved(date) ==
  /\ page.pc = "on"
  /\ ~page.effect
  /\ page.inflight[date] > 0
  /\ page' = [page EXCEPT
       !.inflight[date] = @ - 1,
       !.transfers = IF Applies(date, page.selectedDate) THEN date ELSE page.transfers,
       !.loading = FALSE,
       !.log = Append(page.log, date)]
  /\ UNCHANGED <<view, stream, mergeVars, mirrorVars, syncVars, fetchVars>>

\* fetchTransfers, lines 68-79 and 93-98: the response is not OK, or fetch rejects
TransfersFailed(date) ==
  /\ page.pc = "on"
  /\ ~page.effect
  /\ page.inflight[date] > 0
  /\ page' = [page EXCEPT !.inflight[date] = @ - 1, !.error = TRUE, !.loading = FALSE]
  /\ UNCHANGED <<view, stream, mergeVars, mirrorVars, syncVars, fetchVars>>

InitPage ==
  /\ page = [IdlePage EXCEPT !.pc = "on", !.selectedDate = Today, !.loading = TRUE,
                             !.effect = TRUE]
  /\ view = IdleView
  /\ stream = IdleStream
  /\ MergeIdle
  /\ MirrorIdle
  /\ SyncIdle
  /\ FetchIdle

NextPage ==
  \/ EffectFetch
  \/ \E date \in Periods : DateChange(date)
  \/ Refresh
  \/ \E date \in Periods : TransfersResolved(date)
  \/ \E date \in Periods : TransfersFailed(date)

SpecPage == InitPage /\ [][NextPage]_vars

(***************************************************************************)
(* Properties.                                                             *)
(***************************************************************************)
PostsInFlight == { r \in Slots : reqs[r].kind = "POST" }

\* C1: for one SyncService instance at most one sync() call is past the guard
\* and at most one push is in flight; a sync() call made meanwhile returns at
\* the guard and changes neither the running call, nor the requests, nor the
\* flag, nor the store.
C1_SinglePushInFlight ==
  /\ [](Len(calls) <= 1 /\ Cardinality(PostsInFlight) <= 1)
  /\ [][outcomes'.skipped > outcomes.skipped =>
          /\ syncInProgress /\ calls # <<>>
          /\ UNCHANGED <<calls, reqs, drafts, syncInProgress, store>>]_vars

C1_Witness ==
  /\ outcomes.skipped > 0
  /\ Len(calls) = 1
  /\ calls[1].pc = "fetch"

Quiescent ==
  /\ calls = <<>>
  /\ callers.addTip = 0
  /\ callers.deleteTip = 0

\* C2: once every addTip and deleteTip has completed and no sync() is running,
\* a push of the store's content as the last mutation left it has been issued
\* (stated for the runs in which nothing has failed).
C2_EveryMutationPushed == (Quiescent /\ faults = 0) => ~stale

\* C3: a GET that read the draft saved from the collection T answers T.
C3_RoundTrip ==
  \A r \in Slots :
    (reqs[r].kind = "GET" /\ reqs[r].pc = "done" /\ reqs[r].readDraft)
      => reqs[r].resp = Response(200, JSONArray(reqs[r].readSaved))

\* C4: the mailbox holds at most one draft with the sentinel subject.
C4_AtMostOneDraft == Len(drafts) <= 1

\* C5: a stored tip is synced only if it was in a tip set whose push succeeded
\* or was adopted from the remote collection.
C5_SyncedOnlyIfPushedOrAdopted ==
  \A id \in DOMAIN store : store[id].synced => id \in (pushedOK \cup adopted)

\* C6: right after a push has succeeded the mirror holds exactly the collection
\* that was pushed.
C6_PushOverwrites ==
  \A r \in Slots :
    (reqs[r].kind = "POST" /\ reqs[r].pc = "done" /\ reqs[r].resp.status = 200)
      => reqs[r].mirrorAfter = {reqs[r].body}

LastIndexOf(tips, id) ==
  CHOOSE i \in 1..Len(tips) :
    tips[i].id = id /\ \A j \in 1..Len(tips) : tips[j].id = id => j <= i

\* C7: mergeTips returns one record per identifier of local or remote: the
\* remote record with synced = true where remote has the identifier, the local
\* record unchanged otherwise.
C7_MergeRemoteWins ==
  mPc = "merged" =>
    /\ Ids(mMerged) = Ids(mLocal) \cup Ids(mRemote)
    /\ DistinctIds(mMerged)
    /\ \A k \in 1..Len(mMerged) :
         IF mMerged[k].id \in Ids(mRemote)
         THEN mMerged[k] =
                [mRemote[LastIndexOf(mRemote, mMerged[k].id)] EXCEPT !.synced = TRUE]
         ELSE \E i \in 1..Len(mLocal) : mLocal[i] = mMerged[k]

C7_Witness ==
  /\ mPc = "merged"
  /\ Len(mLocal) = 2
  /\ \E i \in 1..Len(mLocal), j \in 1..Len(mRemote) :
       /\ mLocal[i].id = mRemote[j].id
       /\ mLocal[i].amount # mRemote[j].amount
       /\ ~mRemote[j].synced
  /\ \E i \in 1..Len(mLocal) : mLocal[i].id \notin Ids(mRemote) /\ ~mLocal[i].synced

\* C8: the flag is set exactly while a sync() call is past the guard and has
\* not settled, and every such call settles: the flag is cleared again, also
\* after a failure, which rejects the call.
C8_FlagReleased ==
  /\ [](syncInProgress <=> calls # <<>>)
  /\ [][Len(calls') < Len(calls) =>
          /\ ~syncInProgress'
          /\ outcomes'.resolved + outcomes'.rejected
               = outcomes.resolved + outcomes.rejected + 1
          /\ faults' > faults => outcomes'.rejected > outcomes.rejected]_vars
  /\ (syncInProgress ~> ~syncInProgress)

C8_Witness ==
  /\ outcomes.rejected > 0
  /\ syncInProgress
  /\ Len(calls) = 1
  /\ calls[1].pc = "fetch"


\* C9: in the daily and the monthly batch pipeline, once a message is still
\* rate-limited (429) after its retries, no later batch is started and the
\* request ends with HTTP 429, never with a successful response.
C9_RateLimitAborts ==
  (fetch.endpoint \in {"daily", "monthly"} /\ fetch.exhausted) =>
    /\ ~fetch.lateBatch
    /\ fetch.pc = "done" => fetch.status = 429

\* C10: when the provider answers a message-list or a message-get call with
\* 401 or 403, the response of the endpoint is HTTP 401 and the rejected call
\* is not retried, also for one fetch inside a batch.
C10_AuthFailureIs401 ==
  /\ (fetch.pc = "done" /\ fetch.authRejected) => fetch.status = 401
  /\ \A m \in DOMAIN tasks :
       tasks[m].reason \in {401, 403} => tasks[m].st = "rejected"

\* C11 as stated: a message fetch is attempted at most 3 times.
C11_AtMostThreeAttempts ==
  \A m \in DOMAIN tasks : tasks[m].attempts <= 3

Unsettled(m) == m \in DOMAIN tasks /\ tasks[m].st \notin Settlements

\* C11 as amended: processEmail always settles; a message is fetched at most
\* MAX_RETRIES + 1 = 4 times, the first attempt and one retry after each of
\* at most 3 rate-limit answers; the wait before the retry that follows
\* attempt retryCount + 1 is 2^retryCount seconds; only a 429 is retried, any
\* other failure rejects the fetch at once.
C11_BoundedRetries ==
  /\ [](\A m \in DOMAIN tasks :
          /\ tasks[m].attempts = tasks[m].retryCount + 1
          /\ tasks[m].attempts <= MAX_RETRIES + 1
          /\ tasks[m].st = "waiting" =>
                /\ tasks[m].reason = 429
                /\ tasks[m].wait = 1000 * 2 ^ (tasks[m].attempts - 1)
          /\ (tasks[m].st = "rejected" /\ tasks[m].reason = 429) =>
                tasks[m].attempts = MAX_RETRIES + 1)
  /\ [][\A m \in DOMAIN tasks :
          (m \in DOMAIN tasks' /\ tasks'[m].attempts > tasks[m].attempts) =>
             /\ tasks[m].st = "waiting"
             /\ tasks[m].reason = 429
             /\ tasks'[m].attempts = tasks[m].attempts + 1]_vars
  /\ (\E m \in Messages : Unsettled(m)) ~> AllSettled

C11_Witness ==
  \E m \in DOMAIN tasks :
    /\ tasks[m].st = "rejected"
    /\ tasks[m].reason = 429
    /\ tasks[m].attempts = 4
    /\ tasks[m].wait = 4000

CeilDiv(n, d) == (n + d - 1) \div d

Completed ==
  /\ fetch.endpoint \in {"daily", "monthly"}
  /\ fetch.pc = "done"
  /\ fetch.status = 200
  /\ ~fetch.cached

\* C12: for n listed identifiers a request that is not aborted issues exactly
\* ceil(n / 10) batches, every identifier is fetched in exactly one batch, and
\* a batch starts only when every fetch of the batch before it has settled.
C12_SequentialBatches ==
  /\ [](Completed =>
          /\ fetch.batches = CeilDiv(fetch.n, 10)
          /\ fetch.covered = 1..fetch.n
          /\ fetch.twice = {})
  /\ [](DOMAIN tasks \subseteq Slice(fetch.i, fetch.n))
  /\ [][fetch'.batches > fetch.batches =>
          /\ AllSettled
          /\ fetch'.batches = fetch.batches + 1
          /\ DOMAIN tasks' = Slice(fetch.batches * 10, fetch'.n)]_vars

C12_Witness ==
  /\ Completed
  /\ fetch.n = 23
  /\ fetch.batches = 3
  /\ fetch.i = 20

Held(st, key) == { e \in st : e.key = key }

\* C13: get(key) on an entry whose expires-at is earlier than the current
\* time returns absent and removes that entry, and nothing else, from the
\* store; on an entry that has not expired it returns the stored payload and
\* leaves the store as it was.
C13_GetEvictsExpired ==
  got.key # "" =>
    LET entry == dbGet(got.before, got.key)
    IN  /\ (entry # NoEntry /\ entry.expiresAt < got.at) =>
             /\ got.result = Absent
             /\ Held(cache, got.key) = {}
             /\ cache = got.before \ {entry}
        /\ (entry # NoEntry /\ entry.expiresAt >= got.at) =>
             /\ got.result = Hit(entry.data)
             /\ cache = got.before

C13_Witness ==
  /\ got.key # ""
  /\ dbGet(got.before, got.key) # NoEntry
  /\ dbGet(got.before, got.key).expiresAt < got.at
  /\ cache # {}

\* C14: after set(key, p) was called twice with the same payload, get(key)
\* returns p at every time up to the latest set's time plus the TTL; at any
\* later time it returns absent and leaves no entry for the key. The store
\* never holds two entries for one key.
C14_SetTwiceThenGet ==
  /\ \A key \in CacheKeys : Cardinality(Held(cache, key)) <= 1
  /\ (got.key # "" /\ written[got.key].sets = 2) =>
        IF got.at <= written[got.key].at + CACHE_TTL
        THEN got.result = Hit(written[got.key].data)
        ELSE got.result = Absent /\ Held(cache, got.key) = {}

C14_Witness ==
  /\ got.key # ""
  /\ written[got.key].sets = 2
  /\ written[got.key].at > 0
  /\ got.at > written[got.key].at + CACHE_TTL
  /\ dbGet(got.before, got.key) # NoEntry

\* C15: loading the remote collection never yields an error result: a GET of
\* an authenticated caller that found no draft, or read a draft whose content
\* has no braces or does not parse, answers the empty collection.
C15_LoadNeverFails ==
  \A r \in Slots :
    (/\ reqs[r].kind = "GET" /\ reqs[r].pc = "done" /\ reqs[r].resp.status # 401
     /\ reqs[r].draftId = NoDraft \/ reqs[r].readDraft) =>
      /\ reqs[r].resp.status = 200
      /\ (reqs[r].draftId = NoDraft \/ reqs[r].readSaved = <<>>) =>
            reqs[r].resp.body = EmptyJSON

Pending == callers.addTip + callers.deleteTip

\* C16: addTip and deleteTip return in the step in which they call sync(),
\* without waiting for it to settle; a sync() that fails changes neither the
\* store nor the outcome of the call that started it.
C16_MutationsDoNotAwaitSync ==
  /\ [][(Len(calls') > Len(calls) \/ outcomes'.skipped > outcomes.skipped) =>
          /\ Pending' = Pending - 1
          /\ store' = store]_vars
  /\ [][outcomes'.rejected > outcomes.rejected =>
          /\ store' = store
          /\ callers' = callers]_vars

C16_Witness ==
  /\ outcomes.rejected > 0
  /\ Pending = 0
  /\ deletes = 0
  /\ DOMAIN store = 1..(nextId - 1)
  /\ nextId > 1

\* C17: from an empty store, addTip and then deleteTip of the tip it returned
\* leave the store empty and cause exactly one push, whose payload is the
\* empty tip set (stated for the runs of these two calls alone in which
\* nothing fails).
C17_AddThenDelete ==
  (Quiescent /\ faults = 0 /\ inits = 0 /\ nextId = 2 /\ deletes = 1) =>
    /\ DOMAIN store = {}
    /\ outcomes.resolved + outcomes.rejected = 1
    /\ ~stale

\* C18 as stated: mergeTips(S, S) is S, with the same field values for every
\* record, also when S holds tips with synced = false.
C18_MergeIdempotent ==
  (mPc = "merged" /\ mLocal = mRemote) => mMerged = mLocal

\* C18 as amended: mergeTips(S, S) holds the records of S in the order of S,
\* each with the same field values except synced, which is true for every
\* record; it is S itself exactly when every tip of S is synced.
C18_MergeSelfMarksSynced ==
  (mPc = "merged" /\ mLocal = mRemote) =>
    /\ Len(mMerged) = Len(mLocal)
    /\ \A k \in 1..Len(mMerged) : mMerged[k] = [mLocal[k] EXCEPT !.synced = TRUE]
    /\ mMerged = mLocal <=> \A k \in 1..Len(mLocal) : mLocal[k].synced

C18_Witness ==
  /\ mPc = "merged"
  /\ mLocal = mRemote
  /\ Len(mLocal) = 2
  /\ \E k \in 1..2 : ~mLocal[k].synced
  /\ \E k \in 1..2 : mLocal[k].synced

\* C19: in a batch, a fetch that fails with anything but a rate limit leaves
\* its siblings running and the later batches to come: the request goes on to
\* its end and, when no other message is rate-limited or carries a malformed
\* date, answers 200 with the transfers of all the other messages, the failed
\* one left out.
C19_FailureSkipsOneMessage ==
  /\ []((/\ fetch.endpoint \in {"daily", "monthly"} /\ fetch.pc = "done"
          /\ fetch.failed # {} /\ ~fetch.exhausted /\ fetch.invalid = {}) =>
          /\ fetch.status = 200
          /\ fetch.batches = CeilDiv(fetch.n, 10)
          /\ fetch.body = (1..fetch.n) \ (fetch.failed \cup fetch.nulls)
          /\ fetch.failed \cap fetch.body = {})
  /\ [][fetch'.failed # fetch.failed =>
          /\ fetch'.pc = "batch"
          /\ \A m \in DOMAIN tasks :
               \/ tasks'[m] = tasks[m]
               \/ m \in fetch'.failed \ fetch.failed]_vars
  /\ (fetch.failed # {} /\ fetch.pc = "batch") ~> (fetch.pc = "done")

C19_Witness ==
  /\ fetch.pc = "done"
  /\ fetch.endpoint = "monthly"
  /\ fetch.failed = {3}
  /\ fetch.batches = 2
  /\ fetch.status = 200
  /\ 11 \in fetch.body

\* C20: a message whose date header is missing or malformed is left out of
\* the result, with or without an amount, and changes nothing else: the
\* request answers 200 with every other message that holds a transfer.
C20_BadDateExcluded ==
  (/\ fetch.endpoint \in {"daily", "monthly"} /\ fetch.pc = "done"
   /\ fetch.batches > 0 /\ fetch.failed = {} /\ ~fetch.exhausted) =>
    /\ fetch.status = 200
    /\ fetch.body = (1..fetch.n) \ (fetch.nulls \cup fetch.invalid)

RECURSIVE SumAmounts(_)
SumAmounts(transfers) ==
  IF transfers = <<>> THEN 0 ELSE Head(transfers).amount + SumAmounts(Tail(transfers))

InMonth(transfers, m, y) ==
  SelectSeq(transfers, LAMBDA t : t.month = m /\ t.year = y)

\* C21: for every requested year and every set of transfers the endpoint
\* answers with, the page's result has exactly 12 entries, the months of that
\* year from January to December; a month with transfers carries their sum
\* and their count, a month with none carries total 0 and count 0.
C21_TwelveMonths ==
  view.pc = "merged" =>
    /\ Len(view.merged) = 12
    /\ \A k \in 1..12 :
         /\ view.merged[k].month = [name |-> MonthNames[k], year |-> view.year]
         /\ view.merged[k].totalAmount = SumAmounts(InMonth(view.transfers, k, view.year))
         /\ view.merged[k].numberOfTransfers = Len(InMonth(view.transfers, k, view.year))

C21_Witness ==
  /\ view.pc = "merged"
  /\ Len(view.transfers) = 3
  /\ view.transfers[1].month = 12
  /\ view.transfers[1].year = view.year
  /\ view.transfers[2].month = 1
  /\ view.transfers[2].year # view.year
  /\ view.transfers[3] = view.transfers[1]
  /\ view.merged[12].numberOfTransfers = 2
  /\ view.merged[1].numberOfTransfers = 0

IsTerminal(event) == event.type \in {"data", "error"}

\* C22: a run of the streaming endpoint for an authenticated user emits
\* progress events, then exactly one terminal event (data or error) and
\* closes; nothing follows the terminal event; total is the same in every
\* progress event, current starts at 0 and never decreases, and the data
\* event comes right after a progress event with current = total.
C22_ProgressThenTerminal ==
  /\ [](stream.session # "none" =>
          LET E == stream.events
              n == Len(E)
          IN  /\ \A i \in 1..n : IsTerminal(E[i]) => i = n
              /\ stream.closed <=> (n > 0 /\ IsTerminal(E[n]))
              /\ \A i, j \in 1..n :
                   (E[i].type = "progress" /\ E[j].type = "progress" /\ i <= j) =>
                     /\ E[i].total = E[j].total
                     /\ E[i].current <= E[j].current
              /\ (n > 0 /\ E[1].type = "progress") => E[1].current = 0
              /\ (n > 0 /\ E[n].type = "data") =>
                   /\ n > 1
                   /\ E[n - 1].type = "progress"
                   /\ E[n - 1].current = E[n - 1].total)
  /\ [][stream.closed => stream' = stream]_vars
  /\ (stream.pc = "list" ~> stream.closed)

C22_Witness ==
  /\ stream.closed
  /\ stream.session = "ok"
  /\ stream.totalCount = 3
  /\ stream.counted = 2
  /\ Len(stream.events) = 5
  /\ stream.events[5].type = "data"

Outstanding(pg) == { p \in Periods : pg.inflight[p] > 0 }

\* C23: a period request is never cancelled and its response is applied
\* without a look at the selection: selecting another period leaves every
\* request in flight, a request leaves only by its own response, and an OK
\* response puts its data on display whatever period is selected then.
C23_NoCancelNoGeneration ==
  /\ [][page'.selectedDate # page.selectedDate =>
          \A p \in Periods : page'.inflight[p] >= page.inflight[p]]_vars
  /\ [][\A p \in Periods :
          page'.inflight[p] < page.inflight[p] =>
            /\ page'.inflight[p] = page.inflight[p] - 1
            /\ page'.selectedDate = page.selectedDate
            /\ \/ page'.transfers = p /\ page'.log = Append(page.log, p)
               \/ page'.error /\ page'.transfers = page.transfers]_vars

\* the state the claim names: B is selected, both requests for B have been
\* answered, the answer for A came last and A is on display
C23_Witness ==
  /\ page.selectedDate = "2024-03-20"
  /\ page.transfers = "2024-03-21"
  /\ page.log = <<"2024-03-20", "2024-03-20", "2024-03-21">>
  /\ Outstanding(page) = {}
  /\ ~page.error
  /\ ~page.loading

\* the identifiers handed out so far whose tip is not in the store: deleteTip removed it
Removed == { id \in 1..(nextId - 1) : id \notin DOMAIN store }

\* C24: no step of initialize() puts a tip back into the store that deleteTip
\* removed, whether the mirror still holds it or the deletion fell between
\* initialize()'s read of the store and its write-back.
C24_InitializeKeepsDeletions ==
  [][init' # init => Removed \cap DOMAIN store' = {}]_vars

\* C25: a sync() whose push fails writes nothing to the store: no step of a
\* call that has not yet had its answer changes the store, a response that is
\* not OK ends the call as rejected before the marking loop, and, initialize()
\* aside, a stored tip is synced only if a push that held it succeeded.
C25_FailedPushLeavesStore ==
  /\ [][(calls # <<>> /\ calls[1].pc \in {"getTips", "fetch"} /\ calls' # calls) =>
          /\ store' = store
          /\ (calls[1].pc = "fetch" /\ reqs[calls[1].slot].resp.status # 200) =>
               /\ calls' = <<>>
               /\ outcomes'.rejected = outcomes.rejected + 1]_vars
  /\ [](\A c \in DOMAIN calls :
          calls[c].pc \in {"markGet", "markPut"} => Ids(calls[c].localTips) \subseteq pushedOK)
  /\ [](inits = 0 => \A id \in DOMAIN store : store[id].synced => id \in pushedOK)

C25_Witness ==
  /\ outcomes.rejected = 1
  /\ calls = <<>>
  /\ ~stale
  /\ pushedOK = {}
  /\ inits = 0
  /\ nextId = 2
  /\ DOMAIN store = {1}
  /\ ~store[1].synced
  /\ Len(drafts) = 0

\* C26: the marking loop of sync() touches only tips of the snapshot it
\* pushed and only their synced flag: a step of markAsSynced creates no
\* record, removes none, and changes a record only by setting synced on a tip
\* of the snapshot.
C26_MarkTouchesOnlyFlag ==
  [][(calls # <<>> /\ calls[1].pc \in {"markGet", "markPut"} /\ calls' # calls) =>
       /\ DOMAIN store' = DOMAIN store
       /\ \A id \in DOMAIN store :
            \/ store'[id] = store[id]
            \/ /\ id \in Ids(calls[1].localTips)
               /\ store'[id] = [store[id] EXCEPT !.synced = TRUE]]_vars

\* C27: the period cache is written only by a request whose batches all
\* completed: a request that ends with 401, 429 or 500 leaves no entry, and a
\* stored payload was computed from all listed messages, none dropped because
\* its fetch was rejected with a rate limit or an authentication error.
C27_CacheOnlyFromCompleteRuns ==
  /\ (fetch.pc = "done" /\ fetch.status \in {401, 429, 500}) => cache = {}
  /\ cache # {} => (~fetch.exhausted /\ ~fetch.authRejected)

LoadFailures == {"fetch", "notOk", "notArray"}

\* C28: initialize() always resolves, and when the remote collection cannot
\* be loaded (the fetch rejects, the response is not OK, or its body is not a
\* tip array) initialize() returns without having written to the store: it
\* writes only in its update loop, which such a call never enters.
C28_InitializeNeverThrows ==
  /\ []((init.pc = "idle" /\ inits > 0) => init.settled = "resolved")
  /\ [][inits' > inits => store' = store]_vars
  /\ [][(init.pc = "fetch" /\ init' # init) =>
          /\ store' = store
          /\ reqs[init.slot].resp.status # 200 => init'.failure = "notOk"]_vars
  /\ [][(init.pc = "getTips" /\ init' # init) =>
          /\ store' = store
          /\ init.remote.kind # "array" => init'.failure \in {"notArray", "db"}]_vars
  /\ [][(init' # init /\ init'.failure \in LoadFailures) =>
          /\ init.pc # "update"
          /\ init'.pc = "idle"
          /\ store' = store]_vars

C28_Witness ==
  /\ init.pc = "idle"
  /\ init.failure = "notArray"
  /\ init.settled = "resolved"
  /\ \E id \in DOMAIN store : ~store[id].synced
  /\ \E id \in DOMAIN store : store[id].synced

\* the request carries no session or, where the handler asks for one, no access token
Unauthenticated(endpoint, session) ==
  \/ session = "none"
  \/ endpoint \in {"daily", "legacy", "tips"} /\ session = "noToken"

Untouched(req) ==
  /\ req.pc = "done"
  /\ req.resp.status = 401
  /\ req.draftId = NoDraft
  /\ ~req.readDraft
  /\ req.mirrorAfter = {}

\* C29: a request without a session (for the tips and the daily endpoint
\* also one without an access token) is answered 401 in its first step,
\* before any call to the mail provider and before any read or write of the
\* period cache: no draft is listed, read or written, no message is listed or
\* fetched, and the cache and the mailbox are as they were.
C29_NoSessionNoAccess ==
  /\ [](\A r \in Slots :
          (reqs[r].kind # "none" /\ Unauthenticated("tips", reqs[r].session)) =>
            Untouched(reqs[r]))
  /\ [][\A r \in Slots :
          (reqs'[r] # reqs[r] /\ reqs'[r].kind # "none"
             /\ Unauthenticated("tips", reqs'[r].session)) => drafts' = drafts]_vars
  /\ []((fetch.endpoint # "none" /\ Unauthenticated(fetch.endpoint, fetch.session)) =>
          /\ fetch.pc = "done"
          /\ fetch.status = 401
          /\ fetch.n = 0 /\ fetch.batches = 0 /\ fetch.covered = {}
          /\ ~fetch.cached
          /\ tasks = <<>>)
  /\ [][(fetch' # fetch /\ Unauthenticated(fetch'.endpoint, fetch'.session)) =>
          /\ fetch.pc \in {"idle", "done"}
          /\ cache' = cache]_vars

C29_Witness ==
  /\ drafts # <<>>
  /\ \E r \in Slots :
       /\ reqs[r].kind = "GET"
       /\ reqs[r].session = "none"
       /\ reqs[r].resp.status = 401

\* C30: at every time t, clearExpired run at t keeps exactly the entries for
\* which get at t returns the payload and removes exactly those for which get
\* returns absent, an entry whose expires-at equals t being kept.
C30_ExpiryAgrees ==
  clearExpired(cache, clock.now) = { e \in cache : cacheGet(cache, e.key, clock.now).hit }

====
